---- MODULE Spec2Model ----
(***************************************************************************)
(* VeriFlow: the DSL parser, the validator and the two entry points that   *)
(* drive them (DigitalDesignAgent.process_dsl_file in the CLI and          *)
(* analyze_dsl_and_critique in the RAG agent), over the persisted          *)
(* state_machine.json.                                                     *)
(*                                                                         *)
(* Representation.                                                         *)
(*  - An optional value (Python None / a value) is <<>> / <<v>>.           *)
(*  - Free text (comments, conditions, header text, action names, output   *)
(*    keys and values) is a sequence of one-character strings, so that     *)
(*    str.strip, str.lower and the substring test `in` are computed.       *)
(*  - Identifiers matched by \w+ (state and event names, keywords) are     *)
(*    strings; str.upper on them is the table Upper.                       *)
(*  - A line of DSL text is a record of its lexical shape (see Lines);     *)
(*    the regular expressions of the parser are the Match* operators.      *)
(*  - A dict that the code iterates (data['states']) is a sequence of      *)
(*    records in insertion order; a dict only looked up is a function.     *)
(***************************************************************************)
EXTENDS Integers, Sequences, FiniteSets, TLC

VARIABLES
    file,                \* content of state_machine.json
    sm,                  \* StateMachine.data of the StateMachine in use
    caller,              \* entry point of the current or last submission:
                         \* "none" | "cli" (DigitalDesignAgent) | "tool" (rag_agent)
    pc,                  \* "idle" | "prompt" | "parsing" | "validated" | "revalidated"
    lines,               \* DSLParser.lines
    idx,                 \* position of the for loop of DSLParser.parse in lines
    current_section,     \* DSLParser.current_section (optional)
    current_from_state,  \* DSLParser.current_from_state (optional)
    critiques,           \* Validator.critiques
    outcome,             \* how the last submission ended
    consumed             \* number of DSL lines submitted so far in this run

vars == <<file, sm, caller, pc, lines, idx, current_section,
          current_from_state, critiques, outcome, consumed>>

\* Total number of DSL lines submitted in one run of the model.
MaxLines == 3

\* Length of the one DSL text a run of SpecText starts with.
MaxTextLines == 5

-----------------------------------------------------------------------------
(* Optional values and text                                                *)

None == <<>>

Some(v) == <<v>>

IsNone(o) == o = <<>>

UpperChars == <<"A","B","C","D","E","F","G","H","I","J","K","L","M",
                "N","O","P","Q","R","S","T","U","V","W","X","Y","Z">>

LowerChars == <<"a","b","c","d","e","f","g","h","i","j","k","l","m",
                "n","o","p","q","r","s","t","u","v","w","x","y","z">>

\* str.lower, character by character
LowerChar(c) ==
    IF \E i \in 1..26 : UpperChars[i] = c
    THEN LowerChars[CHOOSE i \in 1..26 : UpperChars[i] = c]
    ELSE c

Lower(s) == [i \in 1..Len(s) |-> LowerChar(s[i])]

\* `sub in s` on str
Contains(s, sub) ==
    \E i \in 0..(Len(s) - Len(sub)) :
        \A j \in 1..Len(sub) : s[i + j] = sub[j]

\* str.strip
Strip(s) ==
    LET keep == {i \in 1..Len(s) : s[i] # " "}
    IN  IF keep = {} THEN <<>>
        ELSE LET lo == CHOOSE i \in keep : \A j \in keep : i <= j
                 hi == CHOOSE i \in keep : \A j \in keep : j <= i
             IN  SubSeq(s, lo, hi)

\* str.upper on the identifiers the model uses
Upper(w) ==
    CASE w = "a" -> "A"
      [] w = "b" -> "B"
      [] w = "e" -> "E"
      [] w = "global_transitions" -> "GLOBAL_TRANSITIONS"
      [] w = "state_list" -> "STATE_LIST"
      [] w = "transitions" -> "TRANSITIONS"
      [] w = "Transitions" -> "TRANSITIONS"
      [] w = "feature" -> "FEATURE"
      [] w = "intent" -> "INTENT"
      [] w = "assume" -> "ASSUME"
      [] OTHER -> w

-----------------------------------------------------------------------------
(* The document                                                            *)

\* StateMachine._get_initial_structure
InitialStructure ==
    [header |-> <<>>, assumptions |-> <<>>,
     global_transitions |-> <<>>, states |-> <<>>]

\* dict[key] = value on a dict that is only looked up
DictSet(d, k, v) == [x \in (DOMAIN d) \cup {k} |-> IF x = k THEN v ELSE d[x]]

\* `key in data` on the loaded JSON object
HasKey(d, key) == key \in DOMAIN d

HasState(d, name) == \E i \in 1..Len(d.states) : d.states[i].name = name

\* data['states'][name]
StateOf(d, name) ==
    d.states[CHOOSE i \in 1..Len(d.states) : d.states[i].name = name]

\* StateMachine.get_all_defined_states
get_all_defined_states(d) ==
    IF HasKey(d, "states") THEN {d.states[i].name : i \in 1..Len(d.states)}
    ELSE {}

\* get_all_target_states with the loop over the states left out
get_all_target_states_global_only(d) ==
    IF HasKey(d, "global_transitions")
    THEN {d.global_transitions[i].target : i \in 1..Len(d.global_transitions)}
    ELSE {}

\* StateMachine.get_all_target_states
get_all_target_states(d) ==
    (IF HasKey(d, "global_transitions")
     THEN {d.global_transitions[i].target : i \in 1..Len(d.global_transitions)}
     ELSE {})
    \cup
    (IF HasKey(d, "states")
     THEN UNION {{d.states[i].transitions[j].target :
                     j \in 1..Len(d.states[i].transitions)} :
                 i \in 1..Len(d.states)}
     ELSE {})

\* state_machine.json: absent, a text json.loads rejects, or a JSON text
\* with the value it denotes
Absent == [kind |-> "absent"]

Unparseable == [kind |-> "garbage"]

\* json.dumps(self.data) as written by StateMachine.save
Dump(d) == [kind |-> "json", data |-> d]

\* the JSON object {}: a dict with no key
EmptyObject == <<>>

\* StateMachine.load: whatever json.loads returns becomes self.data; only
\* the absent file and JSONDecodeError give the initial structure
Load(f) == IF f.kind = "json" THEN f.data ELSE InitialStructure

-----------------------------------------------------------------------------
(* Lines of DSL text, by lexical shape                                     *)
(*   blank     ""                                                          *)
(*   hash      "# <directive>: <text>"                                     *)
(*   label     "<word>:"                                                   *)
(*   decl      "<state> [Output: k=v, ...] # comment"                      *)
(*   from      "FROM(<state>): # comment"                                  *)
(*   on_event  "ON_EVENT(<event>): <clause> -> TO(<target>) # comment"     *)
(*             clause "none", or "DO" with arg the comma-separated items,  *)
(*             or "IF" with arg the text between the parentheses           *)
(* outputs and comment are optional; outputs is the list of the            *)
(* comma-separated parts, each the list of its '='-separated fields.       *)

Blank == [kind |-> "blank"]

Hash(directive, text) == [kind |-> "hash", directive |-> directive, text |-> text]

Label(word) == [kind |-> "label", word |-> word]

Decl(state, outputs, comment) ==
    [kind |-> "decl", state |-> state, outputs |-> outputs, comment |-> comment]

From(state, comment) == [kind |-> "from", state |-> state, comment |-> comment]

OnEvent(event, clause, arg, target, comment) ==
    [kind |-> "on_event", event |-> event, clause |-> clause, arg |-> arg,
     target |-> target, comment |-> comment]

txt_ok == <<" ", "o", "k">>

txt_v2 == <<" ", "v", "2">>

txt_CRITICAL == <<" ", "C", "R", "I", "T", "I", "C", "A", "L">>

txt_cond == <<"c">>

txt_act == <<" ", "x">>

txt_a1 == <<" ", "a", "1">>

kw_v2 == <<"v", "2">>

kw_future == <<"f", "u", "t", "u", "r", "e">>

kw_critical == <<"c", "r", "i", "t", "i", "c", "a", "l">>

txt_True == <<"T", "r", "u", "e">>

\* the lines DSL texts are drawn from
Lines ==
    { Label("GLOBAL_TRANSITIONS"),
      Label("STATE_LIST"),
      Label("TRANSITIONS"),
      Hash("ASSUME", txt_a1),
      Decl("A", None, None),
      Decl("A", Some(<< << <<"X">>, <<"1">> >> >>), Some(txt_v2)),
      Decl("B", None, Some(txt_ok)),
      From("A", None),
      OnEvent("E", "none", <<>>, "B", None),
      OnEvent("E", "IF", txt_cond, "B", None),
      OnEvent("E", "IF", txt_cond, "B", Some(txt_ok)),
      OnEvent("E", "IF", txt_cond, "A", Some(txt_CRITICAL)),
      OnEvent("E", "DO", <<txt_act>>, "B", None) }

\* dsl_text.strip().split('\n'): the empty text is one blank line
SplitLines(text) == IF text = <<>> THEN <<Blank>> ELSE text

SectionNames == {"GLOBAL_TRANSITIONS", "STATE_LIST", "TRANSITIONS"}

\* lines written in lower and mixed case
CaseLines ==
    { Label("state_list"),
      Label("Transitions"),
      Label("global_transitions"),
      Decl("a", None, Some(txt_ok)),
      Decl("A", None, Some(txt_v2)),
      From("a", None),
      OnEvent("e", "IF", txt_cond, "b", Some(txt_ok)),
      OnEvent("e", "DO", <<txt_act>>, "b", None) }

\* DSLParser._is_section_header
is_section_header(line) ==
    line.kind = "label" /\ Upper(line.word) \in SectionNames

\* DSLParser._extract_comment
extract_comment(line) ==
    IF line.kind \in {"decl", "from", "on_event"} /\ ~IsNone(line.comment)
    THEN Some(Strip(line.comment[1]))
    ELSE None

\* what one line does: the document after it, and whether it raised
Done(d) == [sm |-> d, raised |-> FALSE]

Raised(d) == [sm |-> d, raised |-> TRUE]

\* DSLParser._parse_header; data['header'] and data['assumptions'] raise
\* KeyError on a loaded object without the key
parse_header(d, line) ==
    LET dir == Upper(line.directive)
        text == Strip(line.text)
    IN  CASE dir \in {"FEATURE", "INTENT"} /\ ~HasKey(d, "header") -> Raised(d)
          [] dir = "ASSUME" /\ ~HasKey(d, "assumptions") -> Raised(d)
          [] dir = "FEATURE" ->
               Done([d EXCEPT !.header = DictSet(d.header, "feature", text)])
          [] dir = "INTENT" ->
               Done([d EXCEPT !.header = DictSet(d.header, "intent", text)])
          [] dir = "ASSUME" ->
               Done([d EXCEPT !.assumptions = Append(d.assumptions, text)])
          [] OTHER -> Done(d)

\* [a.strip() for a in actions.split(',') if a.strip()]
StripItems(items) ==
    LET NonEmpty(a) == Strip(a) # <<>>
        kept == SelectSeq(items, NonEmpty)
    IN  [i \in 1..Len(kept) |-> Strip(kept[i])]

\* the pattern of _parse_global_transition: the DO(...) group is optional
MatchGlobal(line) == line.kind = "on_event" /\ line.clause \in {"none", "DO"}

\* DSLParser._parse_global_transition
\* groupdict() holds 'actions': None for an unmatched group, so
\* data.get('actions', '') is None and None.split raises AttributeError;
\* data['global_transitions'] raises KeyError without the key.
parse_global_transition(d, line) ==
    IF ~MatchGlobal(line) THEN Done(d)
    ELSE IF line.clause = "none" THEN Raised(d)
    ELSE IF ~HasKey(d, "global_transitions") THEN Raised(d)
    ELSE Done([d EXCEPT !.global_transitions =
                 Append(@, [event |-> Upper(line.event),
                            actions |-> StripItems(line.arg),
                            target |-> Upper(line.target),
                            comment |-> extract_comment(line)])])

\* the first \w+ of a line, which the pattern of _parse_state_list_item
\* finds with re.search
HasWord(line) == line.kind \in {"label", "decl", "from", "on_event"}

FirstWord(line) ==
    CASE line.kind = "decl" -> line.state
      [] line.kind = "label" -> line.word
      [] line.kind = "from" -> "FROM"
      [] line.kind = "on_event" -> "ON_EVENT"

\* the optional [Output: ...] group, which must follow the first word
OutputsGroup(line) == IF line.kind = "decl" THEN line.outputs ELSE None

\* outputs_dict: parts with exactly one '=' only, later keys overwrite
RECURSIVE OutputsDict(_, _)
OutputsDict(parts, acc) ==
    IF parts = <<>> THEN acc
    ELSE LET key_val == Head(parts)
         IN  OutputsDict(Tail(parts),
                 IF Len(key_val) = 2
                 THEN DictSet(acc, Strip(key_val[1]), Strip(key_val[2]))
                 ELSE acc)

\* update() merging into the record: the transitions of a state seen before
\* are kept
PutState_keeps_transitions(d, name, rec) ==
    IF HasState(d, name)
    THEN [d EXCEPT !.states =
            [i \in 1..Len(@) |->
                IF @[i].name = name
                THEN [rec EXCEPT !.transitions = d.states[i].transitions]
                ELSE @[i]]]
    ELSE [d EXCEPT !.states = Append(@, rec)]

\* data['states'][name] is created when missing, then update()d
PutState(d, name, rec) ==
    IF HasState(d, name)
    THEN [d EXCEPT !.states =
            [i \in 1..Len(@) |-> IF @[i].name = name THEN rec ELSE @[i]]]
    ELSE [d EXCEPT !.states = Append(@, rec)]

\* _parse_state_list_item with the state name stored as written
parse_state_list_item_as_written(d, line) ==
    IF ~HasWord(line) THEN Done(d)
    ELSE IF ~HasKey(d, "states") THEN Raised(d)
    ELSE LET state_name == FirstWord(line)
             outs == OutputsGroup(line)
             outputs_dict == IF IsNone(outs) \/ outs[1] = <<>> THEN <<>>
                             ELSE OutputsDict(outs[1], <<>>)
         IN  Done(PutState(d, state_name,
                     [name |-> state_name,
                      outputs |-> outputs_dict,
                      comment |-> extract_comment(line),
                      transitions |-> <<>>]))

\* DSLParser._parse_state_list_item; data['states'] raises KeyError without
\* the key
parse_state_list_item(d, line) ==
    IF ~HasWord(line) THEN Done(d)
    ELSE IF ~HasKey(d, "states") THEN Raised(d)
    ELSE LET state_name == Upper(FirstWord(line))
             outs == OutputsGroup(line)
             outputs_dict == IF IsNone(outs) \/ outs[1] = <<>> THEN <<>>
                             ELSE OutputsDict(outs[1], <<>>)
         IN  Done(PutState(d, state_name,
                     [name |-> state_name,
                      outputs |-> outputs_dict,
                      comment |-> extract_comment(line),
                      transitions |-> <<>>]))

\* the pattern of _parse_transitions_item: the IF (...) group is optional
MatchTransition(line) == line.kind = "on_event" /\ line.clause \in {"none", "IF"}

\* the append with the source state created when it is not a key of states
AppendTransition_creates_state(d, from_state, line) ==
    LET transition == [event |-> Upper(line.event),
                       condition |-> Strip(line.arg),
                       target |-> Upper(line.target),
                       comment |-> extract_comment(line)]
    IN  IF HasState(d, from_state)
        THEN [d EXCEPT !.states =
                [i \in 1..Len(@) |->
                    IF @[i].name = from_state
                    THEN [@[i] EXCEPT !.transitions = Append(@, transition)]
                    ELSE @[i]]]
        ELSE [d EXCEPT !.states =
                Append(@, [name |-> from_state, outputs |-> <<>>,
                           comment |-> None,
                           transitions |-> <<transition>>])]

\* the transition dict built at lines 173-178
\* groupdict() holds 'condition': None for an unmatched group, so
\* data.get('condition', 'True') is None and None.strip raises AttributeError.
AppendTransition(d, from_state, line) ==
    LET transition == [event |-> Upper(line.event),
                       condition |-> Strip(line.arg),
                       target |-> Upper(line.target),
                       comment |-> extract_comment(line)]
    IN  IF HasState(d, from_state)
        THEN [d EXCEPT !.states =
                [i \in 1..Len(@) |->
                    IF @[i].name = from_state
                    THEN [@[i] EXCEPT !.transitions = Append(@, transition)]
                    ELSE @[i]]]
        ELSE d

\* DSLParser._parse_transitions_item, the part after the FROM test;
\* data['states'] raises KeyError without the key
parse_transitions_item(d, from_state, line) ==
    IF IsNone(from_state) THEN Done(d)
    ELSE IF ~MatchTransition(line) THEN Done(d)
    ELSE IF line.clause = "none" THEN Raised(d)
    ELSE IF ~HasKey(d, "states") THEN Raised(d)
    ELSE Done(AppendTransition(d, from_state[1], line))

\* the dispatch with a line met before any section header taken as a
\* STATE_LIST line
parse_line_in_section_default_state_list(d, section, from_state, line) ==
    CASE section = Some("GLOBAL_TRANSITIONS") -> parse_global_transition(d, line)
      [] section = Some("STATE_LIST") -> parse_state_list_item(d, line)
      [] section = Some("TRANSITIONS") -> parse_transitions_item(d, from_state, line)
      [] OTHER -> parse_state_list_item(d, line)

\* DSLParser._parse_line_in_section
parse_line_in_section(d, section, from_state, line) ==
    CASE section = Some("GLOBAL_TRANSITIONS") -> parse_global_transition(d, line)
      [] section = Some("STATE_LIST") -> parse_state_list_item(d, line)
      [] section = Some("TRANSITIONS") -> parse_transitions_item(d, from_state, line)
      [] OTHER -> Done(d)

\* _set_section with current_from_state left as it was
set_section_keeps_from(d, from_state, line) ==
    [sm |-> d, section |-> Some(Upper(line.word)),
     from_state |-> from_state, raised |-> FALSE]

\* DSLParser._set_section on a parser whose current_from_state is from_state
set_section(d, from_state, line) ==
    [sm |-> d, section |-> Some(Upper(line.word)),
     from_state |-> None, raised |-> FALSE]

\* the body of the for loop of DSLParser.parse for one line: the document,
\* the parser's cursor, and whether the line raised
parse_line(d, section, from_state, line) ==
    LET keep(r) == [sm |-> r.sm, section |-> section,
                    from_state |-> from_state, raised |-> r.raised]
    IN  CASE line.kind = "blank" -> keep(Done(d))
          [] line.kind = "hash" -> keep(parse_header(d, line))
          [] is_section_header(line) -> set_section(d, from_state, line)
          [] section = Some("TRANSITIONS") /\ line.kind = "from" ->
               [sm |-> d, section |-> section,
                from_state |-> Some(Upper(line.state)), raised |-> FALSE]
          [] OTHER -> keep(parse_line_in_section(d, section, from_state, line))

RECURSIVE parse_from(_, _, _, _, _)
\* the for loop of DSLParser.parse from line i on
parse_from(d, section, from_state, ls, i) ==
    IF i > Len(ls) THEN Done(d)
    ELSE LET r == parse_line(d, section, from_state, ls[i])
         IN  IF r.raised THEN Raised(r.sm)
             ELSE parse_from(r.sm, r.section, r.from_state, ls, i + 1)

\* DSLParser(text, sm).parse(): a new parser, with no active section and no
\* active source state, run over the whole text
parse(d, text) == parse_from(d, None, None, SplitLines(text), 1)

-----------------------------------------------------------------------------
(* The validator                                                           *)

\* _check_undefined_states with the defined states not subtracted
check_undefined_states_all_targets(d) ==
    LET undefined == get_all_target_states(d)
    IN  IF undefined # {}
        THEN << [kind |-> "undefined", names |-> undefined] >>
        ELSE <<>>

\* Validator._check_undefined_states
check_undefined_states(d) ==
    LET undefined == get_all_target_states(d) \ get_all_defined_states(d)
    IN  IF undefined # {}
        THEN << [kind |-> "undefined", names |-> undefined] >>
        ELSE <<>>

\* the test of one state with the per-state transitions not searched
IsDeadlock_global_only(d, state_name) ==
    LET state_data == StateOf(d, state_name)
        has_outgoing == state_data.transitions # <<>>
        is_global_target ==
            \E i \in 1..Len(d.global_transitions) :
                d.global_transitions[i].target = state_name
    IN  ~has_outgoing /\ is_global_target

\* the test of one state in the loop of Validator._find_deadlocks
IsDeadlock(d, state_name) ==
    LET state_data == StateOf(d, state_name)
        has_outgoing == state_data.transitions # <<>>
        is_global_target ==
            \E i \in 1..Len(d.global_transitions) :
                d.global_transitions[i].target = state_name
        is_regular_target ==
            \E i \in 1..Len(d.states) :
                \E j \in 1..Len(d.states[i].transitions) :
                    d.states[i].transitions[j].target = state_name
    IN  ~has_outgoing /\ (is_global_target \/ is_regular_target)

\* Validator._find_deadlocks; order is the order in which the set
\* defined_states is iterated
find_deadlocks(d, order) ==
    LET Flagged(name) == IsDeadlock(d, name)
        flagged == SelectSeq(order, Flagged)
    IN  [i \in 1..Len(flagged) |-> [kind |-> "deadlock", state |-> flagged[i]]]

\* a run of checks: the critiques appended, and whether it raised
RECURSIVE transition_hints(_, _, _)
\* the inner loop of Validator._check_comment_hints, from transition j on;
\* trans.get('comment', '') is None for a stored null and None.lower raises
transition_hints(state, transitions, j) ==
    IF j > Len(transitions) THEN [critiques |-> <<>>, raised |-> FALSE]
    ELSE IF IsNone(transitions[j].comment)
    THEN [critiques |-> <<>>, raised |-> TRUE]
    ELSE LET here == IF Contains(Lower(transitions[j].comment[1]), kw_critical)
                     THEN << [kind |-> "critical", state |-> state,
                              event |-> transitions[j].event] >>
                     ELSE <<>>
             rest == transition_hints(state, transitions, j + 1)
         IN  [critiques |-> here \o rest.critiques, raised |-> rest.raised]

RECURSIVE state_hints(_, _)
\* the outer loop of Validator._check_comment_hints, from state i on;
\* data.get('comment', '') is None for a stored null and `'v2' in None` raises
state_hints(d, i) ==
    IF i > Len(d.states) THEN [critiques |-> <<>>, raised |-> FALSE]
    ELSE IF IsNone(d.states[i].comment)
    THEN [critiques |-> <<>>, raised |-> TRUE]
    ELSE LET comment == d.states[i].comment[1]
             here == IF Contains(comment, kw_v2) \/ Contains(comment, kw_future)
                     THEN << [kind |-> "future", state |-> d.states[i].name,
                              comment |-> comment] >>
                     ELSE <<>>
             inner == transition_hints(d.states[i].name, d.states[i].transitions, 1)
             rest == IF inner.raised
                     THEN [critiques |-> <<>>, raised |-> TRUE]
                     ELSE state_hints(d, i + 1)
         IN  [critiques |-> here \o inner.critiques \o rest.critiques,
              raised |-> rest.raised]

\* Validator._check_comment_hints; data['states'] raises KeyError without
\* the key
check_comment_hints(d) ==
    IF HasKey(d, "states") THEN state_hints(d, 1)
    ELSE [critiques |-> <<>>, raised |-> TRUE]

\* Validator.validate: self.critiques when it returns or raises
validate(d, order) ==
    LET hints == check_comment_hints(d)
    IN  [critiques |-> check_undefined_states(d) \o find_deadlocks(d, order)
                        \o hints.critiques,
         raised |-> hints.raised]

\* validate() with the reset of self.critiques at its start left out
validate_accumulating(prev, d, order) ==
    LET v == validate(d, order)
    IN  [critiques |-> prev \o v.critiques, raised |-> v.raised]

\* Validator.validate on a Validator whose critiques list is prev: the list
\* is reset (self.critiques = []) before the three checks run
validate_again(prev, d, order) ==
    LET reset == <<>>
        v == validate(d, order)
    IN  [critiques |-> reset \o v.critiques, raised |-> v.raised]

\* the orders in which a set of names can be iterated
Orders(S) ==
    {o \in [1..Cardinality(S) -> S] : \A i, j \in 1..Cardinality(S) :
                                          i # j => o[i] # o[j]}

-----------------------------------------------------------------------------
(* The program                                                             *)

\* a document save() wrote in an earlier run:
\*   STATE_LIST: / A # ok
SavedState ==
    [InitialStructure EXCEPT !.states =
        << [name |-> "A", outputs |-> <<>>, comment |-> Some(<<"o", "k">>),
            transitions |-> <<>>] >>]

\* a document save() wrote in an earlier run:
\*   STATE_LIST: / A # ok / B # ok
SavedStates ==
    [InitialStructure EXCEPT !.states =
        << [name |-> "A", outputs |-> <<>>, comment |-> Some(<<"o", "k">>),
            transitions |-> <<>>],
           [name |-> "B", outputs |-> <<>>, comment |-> Some(<<"o", "k">>),
            transitions |-> <<>>] >>]

\* a document save() wrote in an earlier run:
\*   # ASSUME: a1 / STATE_LIST: / A # ok / TRANSITIONS: / FROM(A): /
\*   ON_EVENT(E): IF (c) -> TO(A) # ok
SavedLoop ==
    [InitialStructure EXCEPT
        !.assumptions = << <<"a", "1">> >>,
        !.states =
        << [name |-> "A", outputs |-> <<>>, comment |-> Some(<<"o", "k">>),
            transitions |-> << [event |-> "E", condition |-> <<"c">>,
                                target |-> "A",
                                comment |-> Some(<<"o", "k">>)] >>] >>]

\* what state_machine.json holds when the program starts
InitialFiles ==
    {Absent, Dump(SavedState), Dump(SavedStates), Dump(SavedLoop)}

Init ==
    /\ file \in InitialFiles
    /\ sm = InitialStructure
    /\ caller = "none"
    /\ pc = "idle"
    /\ lines = <<>>
    /\ idx = 1
    /\ current_section = None
    /\ current_from_state = None
    /\ critiques = <<>>
    /\ outcome = "none"
    /\ consumed = 0

\* DSLParser.__init__ and Validator not yet built
NewParser(text) ==
    /\ lines' = SplitLines(text)
    /\ idx' = 1
    /\ current_section' = None
    /\ current_from_state' = None
    /\ critiques' = <<>>
    /\ outcome' = "running"
    /\ consumed' = consumed + Len(text)

\* main() of digital_design_agent.py up to the prompt:
\* DigitalDesignAgent() builds its StateMachine, which loads the file
Main ==
    /\ pc = "idle"
    /\ caller' = "cli"
    /\ sm' = Load(file)
    /\ pc' = "prompt"
    /\ outcome' = "none"
    /\ UNCHANGED <<file, lines, idx, current_section, current_from_state,
                   critiques, consumed>>

\* exit / quit / end of input at the prompt
SessionEnd ==
    /\ pc = "prompt"
    /\ pc' = "idle"
    /\ caller' = "none"
    /\ UNCHANGED <<file, sm, lines, idx, current_section, current_from_state,
                   critiques, outcome, consumed>>

\* process_dsl_file on a path that does not exist
ProcessMissingFile ==
    /\ pc = "prompt"
    /\ outcome # "not_found"
    /\ outcome' = "not_found"
    /\ UNCHANGED <<file, sm, caller, pc, lines, idx, current_section,
                   current_from_state, critiques, consumed>>

\* process_dsl_file up to parser.parse(): the parser is built on self.sm
ProcessDslFile ==
    /\ pc = "prompt"
    /\ \E n \in 0..(MaxLines - consumed) : \E text \in [1..n -> Lines] :
           NewParser(text)
    /\ pc' = "parsing"
    /\ UNCHANGED <<file, sm, caller>>

\* analyze_dsl_and_critique up to parser.parse(): StateMachine() is built
AnalyzeDsl ==
    /\ pc = "idle"
    /\ \E n \in 0..(MaxLines - consumed) : \E text \in [1..n -> Lines] :
           NewParser(text)
    /\ sm' = Load(file)
    /\ caller' = "tool"
    /\ pc' = "parsing"
    /\ UNCHANGED file

\* one iteration of the for loop of DSLParser.parse; an exception leaves
\* process_dsl_file and main (the CLI ends) or the tool call
ParseLine ==
    /\ pc = "parsing"
    /\ idx <= Len(lines)
    /\ LET r == parse_line(sm, current_section, current_from_state, lines[idx])
       IN  /\ sm' = r.sm
           /\ current_section' = r.section
           /\ current_from_state' = r.from_state
           /\ IF r.raised
              THEN /\ outcome' = "parse_error"
                   /\ pc' = "idle"
                   /\ idx' = idx
              ELSE /\ idx' = idx + 1
                   /\ UNCHANGED <<outcome, pc>>
    /\ UNCHANGED <<file, caller, lines, critiques, consumed>>

\* the loop of parse() is over: Validator(...).validate()
Validate ==
    /\ pc = "parsing"
    /\ idx > Len(lines)
    /\ \E order \in Orders(get_all_defined_states(sm)) :
         LET v == validate(sm, order)
         IN  /\ critiques' = v.critiques
             /\ IF v.raised
                THEN /\ outcome' = "validate_error"
                     /\ pc' = "idle"
                ELSE /\ pc' = "validated"
                     /\ UNCHANGED outcome
    /\ UNCHANGED <<file, sm, caller, lines, idx, current_section,
                   current_from_state, consumed>>

\* the response with the test of the critique list left out
RespondAlwaysSaves ==
    /\ pc = "validated"
    /\ file' = Dump(sm)
    /\ outcome' = "saved"
    /\ pc' = IF caller = "cli" THEN "prompt" ELSE "idle"
    /\ UNCHANGED <<sm, caller, lines, idx, current_section, current_from_state,
                   critiques, consumed>>

\* the response of process_dsl_file / analyze_dsl_and_critique:
\* save() when there is no critique
Respond ==
    /\ pc = "validated"
    /\ IF critiques = <<>>
       THEN /\ file' = Dump(sm)
            /\ outcome' = "saved"
       ELSE /\ file' = file
            /\ outcome' = "rejected"
    /\ pc' = IF caller = "cli" THEN "prompt" ELSE "idle"
    /\ UNCHANGED <<sm, caller, lines, idx, current_section, current_from_state,
                   critiques, consumed>>

Next ==
    \/ Main
    \/ SessionEnd
    \/ ProcessMissingFile
    \/ ProcessDslFile
    \/ AnalyzeDsl
    \/ ParseLine
    \/ Validate
    \/ Respond

Spec == Init /\ [][Next]_vars

\* Validator.validate called once more on the Validator that has just
\* returned, by a caller that keeps the object (neither entry point does)
ValidateAgain ==
    /\ pc = "validated"
    /\ \E order \in Orders(get_all_defined_states(sm)) :
         LET v == validate_again(critiques, sm, order)
         IN  /\ critiques' = v.critiques
             /\ IF v.raised
                THEN /\ outcome' = "validate_error"
                     /\ pc' = "idle"
                ELSE /\ pc' = "revalidated"
                     /\ UNCHANGED outcome
    /\ UNCHANGED <<file, sm, caller, lines, idx, current_section,
                   current_from_state, consumed>>

NextValidator ==
    \/ Next
    \/ ValidateAgain

SpecValidator == Init /\ [][NextValidator]_vars

\* analyze_dsl_and_critique has just been called with a text of CaseLines:
\* StateMachine() has loaded the file and the parser is built; the line
\* budget of later submissions is used up
InitText ==
    /\ file \in {Absent, Dump(SavedState)}
    /\ sm = Load(file)
    /\ caller = "tool"
    /\ pc = "parsing"
    /\ \E n \in 1..MaxTextLines : lines \in [1..n -> CaseLines]
    /\ idx = 1
    /\ current_section = None
    /\ current_from_state = None
    /\ critiques = <<>>
    /\ outcome = "running"
    /\ consumed = MaxLines

SpecText == InitText /\ [][Next]_vars

\* what state_machine.json can hold when someone other than save() wrote it
LoadFiles ==
    {Absent, Unparseable, Dump(EmptyObject), Dump(SavedState)}

InitLoad ==
    /\ file \in LoadFiles
    /\ sm = InitialStructure
    /\ caller = "none"
    /\ pc = "idle"
    /\ lines = <<>>
    /\ idx = 1
    /\ current_section = None
    /\ current_from_state = None
    /\ critiques = <<>>
    /\ outcome = "none"
    /\ consumed = 0

SpecLoad == InitLoad /\ [][Next]_vars

-----------------------------------------------------------------------------
(* Claims                                                                  *)

\* Reading a DSL text as its author does: the section a line stands in, and
\* the FROM(...) it stands under.
SectionAt(text, i) ==
    LET hs == {j \in 1..(i - 1) : is_section_header(text[j])}
    IN  IF hs = {} THEN None
        ELSE Some(Upper(text[CHOOSE j \in hs : \A k \in hs : k <= j].word))

FromAt(text, i) ==
    LET hs == {j \in 1..(i - 1) : is_section_header(text[j])}
        h == IF hs = {} THEN 0 ELSE CHOOSE j \in hs : \A k \in hs : k <= j
        fs == {j \in (h + 1)..(i - 1) : text[j].kind = "from"}
    IN  IF SectionAt(text, i) # Some("TRANSITIONS") \/ fs = {} THEN None
        ELSE Some(Upper(text[CHOOSE j \in fs : \A k \in fs : k <= j].state))

\* every line stands in the section its shape belongs to
WellFormed(text) ==
    \A i \in 1..Len(text) :
        /\ text[i].kind = "decl" => SectionAt(text, i) = Some("STATE_LIST")
        /\ text[i].kind = "from" => SectionAt(text, i) = Some("TRANSITIONS")
        /\ text[i].kind = "on_event" =>
              SectionAt(text, i) \in {Some("GLOBAL_TRANSITIONS"), Some("TRANSITIONS")}
        /\ text[i].kind = "label" => is_section_header(text[i])

\* validate() has run on sm, and critiques is what it left
ValidateRan ==
    pc = "validated" \/ outcome \in {"validate_error", "saved", "rejected"}

\* the critiques of one kind, in order
OfKind(cs, kind) == LET Is(c) == c.kind = kind IN SelectSeq(cs, Is)

\* C1: save() is called during a submission if and only if validate()
\* returned an empty critique list: the step that answers a validated
\* submission writes the document exactly when there is no critique, and no
\* other step writes state_machine.json or reports a save.
C1_SaveIffNoCritiques ==
    [][ /\ pc = "validated" =>
            IF critiques = <<>>
            THEN file' = Dump(sm) /\ outcome' = "saved"
            ELSE file' = file /\ outcome' = "rejected"
        /\ pc # "validated" =>
            file' = file /\ (outcome' = "saved" => outcome = "saved") ]_vars

\* C1 witness: a submission was rejected with critiques and nothing was
\* written to the absent file.
C1_Witness ==
    /\ outcome = "rejected"
    /\ critiques # <<>>
    /\ sm # InitialStructure
    /\ file = Absent

\* C2 (as claimed): when a submission starts, the in-memory document is the
\* persisted one, or the empty document when nothing is persisted.
C2_FreshDocument ==
    (pc = "parsing" /\ idx = 1) => sm = Load(file)

\* C3 (as claimed): parse() never raises.
C3_ParseNeverRaises == outcome # "parse_error"

\* C4 (as claimed): a matched TRANSITIONS line with no IF (...) clause under
\* a declared source state appends a transition with condition "True", and a
\* matched GLOBAL_TRANSITIONS line with no DO(...) clause appends a global
\* transition with no actions; event, target and comment as on any line.
C4_OptionalClauseDefaults ==
    [][ (pc = "parsing" /\ idx <= Len(lines)) =>
          LET line == lines[idx]
              bare == line.kind = "on_event" /\ line.clause = "none"
          IN  /\ ( /\ bare
                   /\ current_section = Some("TRANSITIONS")
                   /\ ~IsNone(current_from_state)
                   /\ HasState(sm, current_from_state[1]) ) =>
                     /\ HasState(sm', current_from_state[1])
                     /\ StateOf(sm', current_from_state[1]).transitions =
                          Append(StateOf(sm, current_from_state[1]).transitions,
                                 [event |-> Upper(line.event),
                                  condition |-> txt_True,
                                  target |-> Upper(line.target),
                                  comment |-> extract_comment(line)])
              /\ (bare /\ current_section = Some("GLOBAL_TRANSITIONS")) =>
                     sm'.global_transitions =
                          Append(sm.global_transitions,
                                 [event |-> Upper(line.event),
                                  actions |-> <<>>,
                                  target |-> Upper(line.target),
                                  comment |-> extract_comment(line)]) ]_vars

\* C5 (as claimed): validate() returns normally on every document the parser
\* produces (here: from a text whose lines stand in their sections), and its
\* result is the undefined-state critique, then the deadlock critiques, then
\* the comment-heuristic notices.
C5_ValidateReturns ==
    /\ WellFormed(lines) => outcome # "validate_error"
    /\ pc = "validated" =>
         \E order \in Orders(get_all_defined_states(sm)) :
            critiques = check_undefined_states(sm) \o find_deadlocks(sm, order)
                          \o check_comment_hints(sm).critiques

\* C6 (as claimed): starting from an empty document, a submission (here of a
\* text whose lines stand in their sections) is accepted and saved whenever every
\* transition target is declared, every declared state that is a target has
\* an outgoing transition, and no comment carries a heuristic keyword: no
\* such submission ends with critiques or with validate() raising.
C6_Acceptance ==
    LET S == 1..Len(sm.states)
        T(i) == 1..Len(sm.states[i].transitions)
        keys == {sm.states[i].name : i \in S}
        targets ==
            {sm.global_transitions[g].target : g \in 1..Len(sm.global_transitions)}
            \cup UNION {{sm.states[i].transitions[j].target : j \in T(i)} : i \in S}
        quiet ==
            /\ \A i \in S : IsNone(sm.states[i].comment) \/
                   ( /\ ~Contains(sm.states[i].comment[1], kw_v2)
                     /\ ~Contains(sm.states[i].comment[1], kw_future) )
            /\ \A i \in S : \A j \in T(i) :
                   IsNone(sm.states[i].transitions[j].comment) \/
                   ~Contains(Lower(sm.states[i].transitions[j].comment[1]),
                             kw_critical)
        acceptable ==
            /\ targets \subseteq keys
            /\ \A i \in S : sm.states[i].name \in targets =>
                              sm.states[i].transitions # <<>>
            /\ quiet
    IN  ( /\ outcome \in {"rejected", "validate_error"}
          /\ caller = "tool" /\ file = Absent
          /\ WellFormed(lines)
          /\ acceptable ) => FALSE

\* C7 (as claimed): for a DSL parsed into an empty document, validate()
\* emits one undefined-state critique naming exactly the names that some
\* matched transition line (global, or under a FROM in TRANSITIONS) targets
\* and that no STATE_LIST line declares, and none when there is no such name.
C7_UndefinedFromText ==
    LET N == 1..Len(lines)
        declared == {Upper(FirstWord(lines[i])) : i \in
                       {k \in N : /\ SectionAt(lines, k) = Some("STATE_LIST")
                                  /\ lines[k].kind \in {"decl", "from", "on_event"}}}
        targeted == {Upper(lines[i].target) : i \in
                       {k \in N :
                          \/ /\ SectionAt(lines, k) = Some("GLOBAL_TRANSITIONS")
                             /\ MatchGlobal(lines[k])
                          \/ /\ SectionAt(lines, k) = Some("TRANSITIONS")
                             /\ MatchTransition(lines[k])
                             /\ ~IsNone(FromAt(lines, k))}}
        missing == targeted \ declared
    IN  (pc = "validated" /\ caller = "tool" /\ file = Absent) =>
            OfKind(critiques, "undefined") =
                IF missing = {} THEN <<>>
                ELSE << [kind |-> "undefined", names |-> missing] >>

\* C7 (amended): once validate() has run, its critique list holds one
\* undefined-state critique naming exactly the targets of the transitions
\* stored in the document (global_transitions and the states' transitions
\* lists) that are not keys of states, and none when there is no such name.
C7_UndefinedFromDocument ==
    LET S == 1..Len(sm.states)
        keys == {sm.states[i].name : i \in S}
        stored ==
            {sm.global_transitions[g].target : g \in 1..Len(sm.global_transitions)}
            \cup UNION {{sm.states[i].transitions[j].target :
                            j \in 1..Len(sm.states[i].transitions)} : i \in S}
        missing == stored \ keys
    IN  ValidateRan =>
            OfKind(critiques, "undefined") =
                IF missing = {} THEN <<>>
                ELSE << [kind |-> "undefined", names |-> missing] >>

\* C7 witness: a text parsed into the empty document left a global
\* transition to the undeclared B, and validate() named B.
C7_Witness ==
    /\ pc = "validated"
    /\ caller = "tool"
    /\ file = Absent
    /\ critiques = << [kind |-> "undefined", names |-> {"B"}] >>

\* C8: once validate() has run, its critique list holds exactly one deadlock
\* critique for each declared state whose transitions list is empty and that
\* a global or per-state transition targets, and none for any other name.
C8_Deadlocks ==
    LET S == 1..Len(sm.states)
        dead == OfKind(critiques, "deadlock")
        names == {sm.states[i].name : i \in S}
                 \cup {dead[k].state : k \in 1..Len(dead)}
        Targeted(n) ==
            \/ \E g \in 1..Len(sm.global_transitions) :
                   sm.global_transitions[g].target = n
            \/ \E i \in S : \E j \in 1..Len(sm.states[i].transitions) :
                   sm.states[i].transitions[j].target = n
        Terminal(n) ==
            \E i \in S : sm.states[i].name = n /\ sm.states[i].transitions = <<>>
    IN  ValidateRan =>
            \A n \in names :
                Cardinality({k \in 1..Len(dead) : dead[k].state = n}) =
                    IF Terminal(n) /\ Targeted(n) THEN 1 ELSE 0

\* C8 witness: B is declared, terminal and targeted only by A's transition
\* and is flagged; A has an outgoing transition and is not.
C8_Witness ==
    /\ ValidateRan
    /\ Len(sm.states) = 2
    /\ sm.global_transitions = <<>>
    /\ sm.states[1].name = "A" /\ Len(sm.states[1].transitions) = 1
    /\ sm.states[1].transitions[1].target = "B"
    /\ sm.states[2].name = "B" /\ sm.states[2].transitions = <<>>
    /\ OfKind(critiques, "deadlock") = << [kind |-> "deadlock", state |-> "B"] >>

\* The scenario of C9 as the validator sees it: S is the only declared state,
\* its only transition targets a name that is not declared, there is no
\* global transition, and no comment carries a heuristic keyword.
DanglingTarget ==
    /\ Len(sm.states) = 1
    /\ sm.global_transitions = <<>>
    /\ Len(sm.states[1].transitions) = 1
    /\ sm.states[1].transitions[1].target # sm.states[1].name
    /\ IsNone(sm.states[1].comment) \/
         ( /\ ~Contains(sm.states[1].comment[1], kw_v2)
           /\ ~Contains(sm.states[1].comment[1], kw_future) )
    /\ IsNone(sm.states[1].transitions[1].comment) \/
         ~Contains(Lower(sm.states[1].transitions[1].comment[1]), kw_critical)

\* C9 (as claimed): in the scenario the validator reports exactly one
\* deadlock notice for U, exactly one undefined-state critique naming U, and
\* no comment-heuristic notice.
C9_DanglingTargetDeadlock ==
    (pc = "validated" /\ DanglingTarget) =>
        LET U == sm.states[1].transitions[1].target
        IN  /\ OfKind(critiques, "deadlock") = << [kind |-> "deadlock", state |-> U] >>
            /\ OfKind(critiques, "undefined") = << [kind |-> "undefined", names |-> {U}] >>
            /\ OfKind(critiques, "future") = <<>>
            /\ OfKind(critiques, "critical") = <<>>

\* C9 (amended): in the scenario the validator's critique list holds exactly
\* one critique, the undefined-state critique naming U: no deadlock notice
\* (U is not a declared state and S has an outgoing transition) and no
\* comment-heuristic notice.
C9_DanglingTargetUndefined ==
    (ValidateRan /\ DanglingTarget) =>
        critiques = << [kind |-> "undefined",
                        names |-> {sm.states[1].transitions[1].target}] >>

\* C9 witness: validate() returned for A with its one transition to the
\* undeclared B.
C9_Witness ==
    /\ pc = "validated"
    /\ DanglingTarget
    /\ sm.states[1].name = "A"
    /\ sm.states[1].transitions[1].target = "B"

\* C10: a line of the parse changes the transitions lists in two ways only.
\* A line that declares a state in STATE_LIST leaves that state with an empty
\* transitions list and the outputs and comment of the line, and leaves every
\* other state's record, the global transitions, the header and the
\* assumptions unchanged. A line from which the parser builds a transition
\* under FROM(s), s declared, appends it to the list of s. Any other line
\* leaves every transitions list and the set of states unchanged.
C10_ReplaceOnRedeclare ==
    [][ (pc = "parsing" /\ idx <= Len(lines)) =>
          LET line == lines[idx]
              declares ==
                  /\ current_section = Some("STATE_LIST")
                  /\ line.kind \in {"decl", "from", "on_event"}
                     \/ (line.kind = "label" /\ ~is_section_header(line))
              name == Upper(FirstWord(line))
              appends ==
                  /\ current_section = Some("TRANSITIONS")
                  /\ line.kind = "on_event" /\ line.clause = "IF"
                  /\ ~IsNone(current_from_state)
                  /\ HasState(sm, current_from_state[1])
              Others(except) ==
                  \A i \in 1..Len(sm.states) :
                      sm.states[i].name # except =>
                          /\ HasState(sm', sm.states[i].name)
                          /\ StateOf(sm', sm.states[i].name) = sm.states[i]
          IN  /\ declares =>
                    /\ get_all_defined_states(sm') =
                          get_all_defined_states(sm) \cup {name}
                    /\ StateOf(sm', name).transitions = <<>>
                    /\ StateOf(sm', name).comment = extract_comment(line)
                    /\ StateOf(sm', name).outputs =
                          IF line.kind = "decl" /\ ~IsNone(line.outputs)
                          THEN OutputsDict(line.outputs[1], <<>>)
                          ELSE <<>>
                    /\ Others(name)
                    /\ sm'.global_transitions = sm.global_transitions
                    /\ sm'.header = sm.header
                    /\ sm'.assumptions = sm.assumptions
              /\ appends =>
                    /\ StateOf(sm', current_from_state[1]).transitions =
                          Append(StateOf(sm, current_from_state[1]).transitions,
                                 [event |-> Upper(line.event),
                                  condition |-> Strip(line.arg),
                                  target |-> Upper(line.target),
                                  comment |-> extract_comment(line)])
                    /\ Others(current_from_state[1])
                    /\ get_all_defined_states(sm') = get_all_defined_states(sm)
              /\ (~declares /\ ~appends) =>
                    /\ Len(sm'.states) = Len(sm.states)
                    /\ \A i \in 1..Len(sm.states) :
                          /\ sm'.states[i].name = sm.states[i].name
                          /\ sm'.states[i].transitions = sm.states[i].transitions
        ]_vars

\* C10 witness: a text re-declared A, which was loaded with one transition;
\* A's list is empty, its outputs and comment are those of the line, and the
\* assumptions are kept.
C10_Witness ==
    /\ pc = "parsing"
    /\ caller = "tool"
    /\ file = Dump(SavedLoop)
    /\ idx = 3
    /\ lines[2] = Decl("A", Some(<< << <<"X">>, <<"1">> >> >>), Some(txt_v2))
    /\ current_section = Some("STATE_LIST")
    /\ sm.states = << [name |-> "A",
                       outputs |-> [k \in {<<"X">>} |-> <<"1">>],
                       comment |-> Some(kw_v2),
                       transitions |-> <<>>] >>
    /\ sm.assumptions = SavedLoop.assumptions

\* The lines of a text that declare a state when STATE_LIST is active, and
\* the lines from which a transition is built when TRANSITIONS is active.
DeclaresAt(text, k) ==
    /\ SectionAt(text, k) = Some("STATE_LIST")
    /\ HasWord(text[k])
    /\ ~is_section_header(text[k])

BuildsAt(text, k) ==
    /\ SectionAt(text, k) = Some("TRANSITIONS")
    /\ text[k].kind = "on_event" /\ text[k].clause = "IF"
    /\ ~IsNone(FromAt(text, k))

TransitionOf(line) ==
    [event |-> Upper(line.event), condition |-> Strip(line.arg),
     target |-> Upper(line.target), comment |-> extract_comment(line)]

\* C11: a matched transition line is appended to the list of the active
\* source state only if that state is a key of states when the line is
\* parsed; with no FROM since the last section header, or a FROM naming a
\* state not declared at that moment, the line leaves the whole document and
\* the parser's cursor unchanged. So, for a text parsed into a loaded document
\* by a tool call, the transitions list of every state is, at every point of
\* the parse, what the document held for it (nothing once the text has
\* declared it) followed by the transitions of the lines under its FROM that
\* come after its last declaration so far and at which it was a key: a line
\* discarded earlier is not brought back by a later declaration.
C11_OrderSensitive ==
    /\ [][ (pc = "parsing" /\ idx <= Len(lines)) =>
             LET line == lines[idx]
                 matched == /\ current_section = Some("TRANSITIONS")
                            /\ MatchTransition(line)
                 known == /\ ~IsNone(current_from_state)
                          /\ HasState(sm, current_from_state[1])
             IN  /\ (matched /\ ~known) =>
                       /\ sm' = sm
                       /\ current_section' = current_section
                       /\ current_from_state' = current_from_state
                 /\ (matched /\ sm' # sm) =>
                       /\ known
                       /\ get_all_defined_states(sm') = get_all_defined_states(sm)
                       /\ sm'.global_transitions = sm.global_transitions ]_vars
    /\ [] ( (pc = "parsing" /\ caller = "tool") =>
              LET base == Load(file)
                  done == 1..(idx - 1)
                  LastDecl(s) ==
                      LET ds == {k \in done : /\ DeclaresAt(lines, k)
                                              /\ Upper(FirstWord(lines[k])) = s}
                      IN  IF ds = {} THEN 0
                          ELSE CHOOSE k \in ds : \A j \in ds : j <= k
                  Kept(s) ==
                      LET Is(k) == /\ BuildsAt(lines, k)
                                   /\ FromAt(lines, k) = Some(s)
                                   /\ k > LastDecl(s)
                                   /\ (LastDecl(s) > 0 \/ HasState(base, s))
                      IN  SelectSeq([k \in done |-> k], Is)
                  Expected(s) ==
                      (IF LastDecl(s) = 0 /\ HasState(base, s)
                       THEN StateOf(base, s).transitions ELSE <<>>)
                      \o [n \in 1..Len(Kept(s)) |-> TransitionOf(lines[Kept(s)[n]])]
              IN  \A i \in 1..Len(sm.states) :
                      sm.states[i].transitions = Expected(sm.states[i].name) )

\* C11 witness: a tool call on the absent file parsed TRANSITIONS: /
\* FROM(A): / ON_EVENT(E): IF (c) -> TO(B) # ok; A is not declared and the
\* document is still empty.
C11_Witness ==
    /\ pc = "parsing"
    /\ caller = "tool"
    /\ file = Absent
    /\ idx = 4
    /\ lines = << Label("TRANSITIONS"), From("A", None),
                  OnEvent("E", "IF", txt_cond, "B", Some(txt_ok)) >>
    /\ current_from_state = Some("A")
    /\ sm = InitialStructure

\* a document with the four collections
IsDocument(d) ==
    DOMAIN d = {"header", "assumptions", "global_transitions", "states"}

\* C12 (as claimed): whatever state_machine.json holds (nothing, a text that
\* is not JSON, JSON that is not a document, a saved document), load()
\* leaves the persisted document when the file holds one and otherwise the
\* empty document with its four collections.
C12_LoadFailsSoft ==
    ( \/ pc = "prompt" /\ outcome = "none"
      \/ pc = "parsing" /\ caller = "tool" /\ idx = 1 ) =>
        sm = IF file.kind = "json" /\ IsDocument(file.data)
             THEN file.data
             ELSE InitialStructure

\* C13: validate() reads the document only: a step that runs it changes
\* neither the document nor state_machine.json, and a second validate() on
\* the unchanged document leaves the critiques of the first call, not these
\* followed by a second copy (the deadlock notices may come in another order,
\* the set of states being iterated anew).
C13_ValidateReadOnly ==
    [][ LET first == pc = "parsing" /\ idx > Len(lines)
            again == pc = "validated" /\ pc' # "prompt" /\ pc' # "idle"
        IN  /\ (first \/ again) => (sm' = sm /\ file' = file)
            /\ again =>
                 /\ Len(critiques') = Len(critiques)
                 /\ \A kind \in {"undefined", "future", "critical"} :
                        OfKind(critiques', kind) = OfKind(critiques, kind)
                 /\ {critiques'[k] : k \in 1..Len(critiques')} =
                        {critiques[k] : k \in 1..Len(critiques)} ]_vars

\* C13 witness: validate() was called a second time on a loaded document to
\* which the text added a global transition to the undeclared B, and the
\* list holds the one undefined-state critique.
C13_Witness ==
    /\ pc = "revalidated"
    /\ sm.states # <<>>
    /\ Len(sm.global_transitions) = 1
    /\ critiques = << [kind |-> "undefined", names |-> {"B"}] >>

\* C14: a section-header line, in any letter case and also when it repeats
\* the active section, sets the active section to its name in upper case,
\* clears the active source state and leaves the document unchanged. So a
\* matched transition line with no FROM line between it and the last header
\* before it leaves the document unchanged, whatever FROM an earlier
\* TRANSITIONS section named.
C14_HeaderResetsFrom ==
    [][ (pc = "parsing" /\ idx <= Len(lines)) =>
          LET line == lines[idx]
              header == line.kind = "label" /\ Upper(line.word) \in SectionNames
              since == {k \in 1..(idx - 1) :
                          /\ lines[k].kind = "from"
                          /\ \A j \in k..(idx - 1) :
                                ~(lines[j].kind = "label"
                                  /\ Upper(lines[j].word) \in SectionNames)}
          IN  /\ header =>
                    /\ current_section' = Some(Upper(line.word))
                    /\ current_from_state' = None
                    /\ sm' = sm
              /\ (line.kind = "on_event"
                  /\ current_section = Some("TRANSITIONS")
                  /\ since = {}) => sm' = sm ]_vars

\* C14 witness: TRANSITIONS: / FROM(a): / Transitions: / ON_EVENT(e): IF (c)
\* -> TO(b) # ok was parsed into the loaded document that declares A; the
\* second header cleared the source state and A has no transition.
C14_Witness ==
    /\ pc = "parsing"
    /\ idx = 5
    /\ lines = << Label("Transitions"), From("a", None), Label("Transitions"),
                  OnEvent("e", "IF", txt_cond, "b", Some(txt_ok)) >>
    /\ current_section = Some("TRANSITIONS")
    /\ current_from_state = None
    /\ sm = SavedState

\* C15: a body line (not blank, not starting with '#', not a section header)
\* leaves the header and the assumptions unchanged and changes at most the
\* part of the document the active section owns: global_transitions under
\* GLOBAL_TRANSITIONS, the state records under STATE_LIST, the transitions
\* list of one state that is already a key under TRANSITIONS, and nothing
\* when no section header has been seen.
C15_SectionScoped ==
    [][ (pc = "parsing" /\ idx <= Len(lines)) =>
          LET line == lines[idx]
              body == /\ line.kind \notin {"blank", "hash"}
                      /\ ~(line.kind = "label" /\ Upper(line.word) \in SectionNames)
              SameBut(i) ==
                  \A k \in 1..Len(sm.states) :
                      /\ sm'.states[k].name = sm.states[k].name
                      /\ sm'.states[k].outputs = sm.states[k].outputs
                      /\ sm'.states[k].comment = sm.states[k].comment
                      /\ k # i => sm'.states[k] = sm.states[k]
          IN  body =>
                /\ sm'.header = sm.header
                /\ sm'.assumptions = sm.assumptions
                /\ current_section = None => sm' = sm
                /\ current_section = Some("GLOBAL_TRANSITIONS") =>
                       sm'.states = sm.states
                /\ current_section = Some("STATE_LIST") =>
                       sm'.global_transitions = sm.global_transitions
                /\ current_section = Some("TRANSITIONS") =>
                       /\ sm'.global_transitions = sm.global_transitions
                       /\ Len(sm'.states) = Len(sm.states)
                       /\ \E i \in 0..Len(sm.states) : SameBut(i) ]_vars

\* C15 witness: the state declaration A, met before any section header by a
\* tool call on the absent file, left the document empty.
C15_Witness ==
    /\ pc = "parsing"
    /\ caller = "tool"
    /\ file = Absent
    /\ idx = 2
    /\ lines[1] = Decl("A", None, None)
    /\ current_section = None
    /\ sm = InitialStructure

\* C16 (as claimed): while STATE_LIST is active, a line shaped like
\* FROM(...): or like ON_EVENT(...): ... -> TO(...) is dropped: it leaves
\* the document unchanged and adds no key to states.
C16_StateListDropsOthers ==
    [][ ( /\ pc = "parsing" /\ idx <= Len(lines)
          /\ current_section = Some("STATE_LIST")
          /\ lines[idx].kind \in {"from", "on_event"} ) =>
            /\ get_all_defined_states(sm') = get_all_defined_states(sm)
            /\ sm' = sm ]_vars

\* the words the parser stores, in the letter case of the two alphabets
IsUpperCase(w) ==
    w \in {"A", "B", "E", "FROM", "ON_EVENT", "GLOBAL_TRANSITIONS",
           "STATE_LIST", "TRANSITIONS"}

\* C17: after any lines are parsed, every key of states and every event and
\* target of the stored global and per-state transitions is upper case, no
\* two keys differ in letter case only, and the active source state is upper
\* case, so that FROM(x) names the state declared under any letter-case
\* variant of x.
C17_UpperCaseNames ==
    LET S == 1..Len(sm.states)
        G == 1..Len(sm.global_transitions)
    IN  /\ \A i \in S : IsUpperCase(sm.states[i].name)
        /\ \A i, j \in S : i # j => sm.states[i].name # sm.states[j].name
        /\ \A i \in S : \A t \in 1..Len(sm.states[i].transitions) :
               /\ IsUpperCase(sm.states[i].transitions[t].event)
               /\ IsUpperCase(sm.states[i].transitions[t].target)
        /\ \A g \in G :
               /\ IsUpperCase(sm.global_transitions[g].event)
               /\ IsUpperCase(sm.global_transitions[g].target)
        /\ ~IsNone(current_from_state) => IsUpperCase(current_from_state[1])

\* C17 witness: state_list: / a # ok / A # v2 / Transitions: / FROM(a): was
\* parsed into the empty document; there is the one state A, with the comment
\* of the second declaration, and it is the active source state.
C17_Witness ==
    /\ pc = "parsing"
    /\ file = Absent
    /\ idx = 6
    /\ lines = << Label("state_list"), Decl("a", None, Some(txt_ok)),
                  Decl("A", None, Some(txt_v2)), Label("Transitions"),
                  From("a", None) >>
    /\ sm.states = << [name |-> "A", outputs |-> <<>>, comment |-> Some(kw_v2),
                       transitions |-> <<>>] >>
    /\ current_from_state = Some("A")

\* C18 (as claimed): on a document whose states all carry a comment,
\* validate() returns, and its list holds exactly one criticality notice,
\* naming the source state and the event, for each per-state transition whose
\* comment contains `critical` in any letter case, and none for a transition
\* whose comment is absent or lacks the word; comments of states and of
\* global transitions produce none.
C18_CriticalityNotices ==
    LET S == 1..Len(sm.states)
        crit == OfKind(critiques, "critical")
        Marked(i, t) ==
            /\ ~IsNone(sm.states[i].transitions[t].comment)
            /\ Contains(Lower(sm.states[i].transitions[t].comment[1]), kw_critical)
        marked == UNION {{<<i, t>> : t \in {u \in 1..Len(sm.states[i].transitions) :
                                              Marked(i, u)}} : i \in S}
    IN  (ValidateRan /\ \A i \in S : ~IsNone(sm.states[i].comment)) =>
            /\ outcome # "validate_error"
            /\ Len(crit) = Cardinality(marked)
            /\ \A m \in marked :
                   Cardinality({k \in 1..Len(crit) :
                       /\ crit[k].state = sm.states[m[1]].name
                       /\ crit[k].event = sm.states[m[1]].transitions[m[2]].event}) =
                   Cardinality({n \in marked :
                       /\ n[1] = m[1]
                       /\ sm.states[n[1]].transitions[n[2]].event =
                              sm.states[m[1]].transitions[m[2]].event})

\* s is a prefix of t, and t holds no element that s does not
GrowsByDuplicates(s, t) ==
    /\ Len(s) <= Len(t)
    /\ SubSeq(t, 1, Len(s)) = s
    /\ {t[k] : k \in 1..Len(t)} = {s[k] : k \in 1..Len(s)}

\* C19: when the parse of a text into a document has completed, parsing the
\* same text once more into the resulting document completes too and leaves
\* the set of defined states and the set of transition targets as they are,
\* and the transitions list of every state the text declares identical; the
\* header and the states' names, outputs and comments are unchanged, and the
\* assumptions, the global transitions and the transitions lists of the other
\* states grow by duplicates only.
C19_ReparseIdempotent ==
    (pc = "parsing" /\ idx > Len(lines)) =>
        LET again == parse(sm, lines)
            d2 == again.sm
            declared == {Upper(FirstWord(lines[k])) :
                           k \in {j \in 1..Len(lines) : DeclaresAt(lines, j)}}
        IN  /\ ~again.raised
            /\ get_all_defined_states(d2) = get_all_defined_states(sm)
            /\ get_all_target_states(d2) = get_all_target_states(sm)
            /\ d2.header = sm.header
            /\ GrowsByDuplicates(sm.assumptions, d2.assumptions)
            /\ GrowsByDuplicates(sm.global_transitions, d2.global_transitions)
            /\ Len(d2.states) = Len(sm.states)
            /\ \A i \in 1..Len(sm.states) :
                   /\ d2.states[i].name = sm.states[i].name
                   /\ d2.states[i].outputs = sm.states[i].outputs
                   /\ d2.states[i].comment = sm.states[i].comment
                   /\ IF sm.states[i].name \in declared
                      THEN d2.states[i].transitions = sm.states[i].transitions
                      ELSE GrowsByDuplicates(sm.states[i].transitions,
                                             d2.states[i].transitions)

\* C19 witness: state_list: / a # ok / Transitions: / FROM(a): /
\* ON_EVENT(e): IF (c) -> TO(b) # ok was parsed into the empty document; A
\* holds the one transition, and a second parse of the text leaves the
\* document as it is.
C19_Witness ==
    /\ pc = "parsing"
    /\ file = Absent
    /\ idx = 6
    /\ lines = << Label("state_list"), Decl("a", None, Some(txt_ok)),
                  Label("Transitions"), From("a", None),
                  OnEvent("e", "IF", txt_cond, "b", Some(txt_ok)) >>
    /\ Len(sm.states) = 1
    /\ Len(sm.states[1].transitions) = 1
    /\ parse(sm, lines) = Done(sm)

====
